---- MODULE Spec2Model ----
(***************************************************************************)
(* Model of media-scraper (src/src/main.py): the matching-and-enrichment   *)
(* pipeline that resolves a video file to a catalog entry, normalizes the  *)
(* catalog records, writes the *.nfo sidecar and downloads the artwork,    *)
(* and the poll loop that drives it.                                       *)
(*                                                                         *)
(* Python values are modelled as follows.                                  *)
(*   str used as data    a sequence of one-character strings               *)
(*   JSON value          a record [t, n, s]: t the type tag, n the integer *)
(*                       (or the length of a list), s the characters       *)
(*   dict                a function whose DOMAIN is the set of keys, or a  *)
(*                       sequence of [key, value] pairs where the code     *)
(*                       iterates in insertion order                       *)
(*   return / raise      a record with kind "ok" or "raise"                *)
(***************************************************************************)
EXTENDS Integers, Sequences, FiniteSets, TLC

VARIABLES
    \* ---- candidate resolution (get_film_id's scan) ----
    films,          \* request_data['films'] handed to the scan
    year,           \* the year taken from the file name
    resolved,       \* result_film_id: the outcome of get_film_id, NotYet before
    \* ---- film normalization and artwork (get_clean_film_info, create_posters) ----
    raw_film_info,  \* the film-detail JSON object
    clean_film,     \* the outcome of get_clean_film_info, NotYet before it ran
    art_files,      \* files create_posters has written: name and url fetched
    art_result,     \* (is_ok, msg) of create_posters, NotYet before it returned
    \* ---- staff normalization (get_clean_staff_info) ----
    raw_staff_info, \* the filtered staff record {'ACTORS': .., 'DIRECTORS': ..}
    clean_staff,    \* the outcome of get_clean_staff_info, NotYet before it ran
    \* ---- the directory and the poll loop (main, process_folder) ----
    dir_files,      \* the files the directory holds from the start, in listing order
    written,        \* the files the program has written into it, in order
    pc,             \* where main / process_folder stands
    files,          \* process_folder's `files`: the listing os.walk handed over
    pos,            \* position in `files` of the file the for loop is at
    title,          \* the title taken from the file name
    files_processed,
    message,        \* process_folder's summary, a sequence of lines
    new_files,
    bot_message,    \* main's message for the cycle, a sequence of parts
    latest_error_msg,
    outbox,         \* the last text handed to send_message and how that ended
    cache,          \* the ttl caches of the three lookups
    \* ---- what happened, kept for the claims ----
    lookup,         \* the last catalog lookup: its key, whether a request went out
    attempted,      \* positions of the files this pass has started on
    events,         \* this pass's failures and degraded matches
    last_exc,       \* the exception that ended this pass, NoException if none
    quiet,          \* passes without exception since latest_error_msg was set
    recent,         \* the lookups that returned inside the time window, oldest first
    cycles          \* the passes of `while True` begun so far

resolveVars == <<films, year, resolved>>
filmVars == <<raw_film_info, clean_film, art_files, art_result>>
staffVars == <<raw_staff_info, clean_staff>>
loopVars == <<dir_files, written, pc, files, pos, title, files_processed, message,
              new_files, bot_message, latest_error_msg, outbox, cache>>
historyVars == <<lookup, attempted, events, last_exc, quiet, recent,
                cycles>>

vars == <<resolveVars, filmVars, staffVars, loopVars, historyVars>>

NotYet == [kind |-> "notyet"]

\* ------------------------------------------------------------------------
\* Bounds of the model
\* ------------------------------------------------------------------------
MaxFilms == 3       \* longest candidate list of a search response
MaxFiles == 2       \* most files the directory holds at the start
MaxPersons == 2     \* most persons of a staff record drawn, both buckets together
MaxAbsentFields == 1 \* most plain film fields missing from a film record drawn
\* entries one memoized lookup keeps: GET_ID_CACHE_SIZE (100) scaled down, so
\* that the few keys of the model fill it
\* passes of the poll loop a behaviour goes through
MaxCycles == 2

\* passes of the poll loop over a folder of one file
MaxLoopCycles == 3

MaxCacheEntries == 2

\* ------------------------------------------------------------------------
\* Python str helpers
\* ------------------------------------------------------------------------
Digits == <<"0", "1", "2", "3", "4", "5", "6", "7", "8", "9">>

DigitSet == {Digits[i] : i \in 1..10}

\* ord(c) for the characters the model uses: the digits, then letters.
Ord(c) ==
    IF c \in DigitSet
    THEN 47 + (CHOOSE i \in 1..10 : Digits[i] = c)
    ELSE 120

\* str.isdigit() on a non-empty string of the model's characters
IsDigitStr(s) == Len(s) > 0 /\ \A i \in 1..Len(s) : s[i] \in DigitSet

\* a > b on str: lexicographic by code point, a proper prefix is smaller
RECURSIVE StrGreater(_, _)
StrGreater(a, b) ==
    IF a = <<>> THEN FALSE
    ELSE IF b = <<>> THEN TRUE
    ELSE IF Ord(Head(a)) # Ord(Head(b)) THEN Ord(Head(a)) > Ord(Head(b))
    ELSE StrGreater(Tail(a), Tail(b))

\* str(n) of a non-negative int: its decimal digits
RECURSIVE Str(_)
Str(n) == IF n < 10 THEN <<Digits[n + 1]>>
          ELSE Str(n \div 10) \o <<Digits[(n % 10) + 1]>>

\* the number a digit string denotes
RECURSIVE IntOfDigits(_)
IntOfDigits(s) ==
    IF s = <<>> THEN 0
    ELSE 10 * IntOfDigits(SubSeq(s, 1, Len(s) - 1)) + (Ord(s[Len(s)]) - 48)

\* ------------------------------------------------------------------------
\* Outcomes of a call
\* ------------------------------------------------------------------------
\* an exception of class exc whose text is fixed
Raise(exc) == [kind |-> "raise", exc |-> exc, detail |-> <<>>]

\* an exception whose text names `detail` (a file, a title, an id, a key)
RaiseWith(exc, detail) == [kind |-> "raise", exc |-> exc, detail |-> detail]

Ran(outcome) == outcome.kind # "notyet"

\* ------------------------------------------------------------------------
\* CandidateResolver: the scan of get_film_id over request_data['films']
\* ------------------------------------------------------------------------
\* len(film_year) != 4 or not film_year.isdigit()
MalformedYear(film_year) == Len(film_year) # 4 \/ ~IsDigitStr(film_year)

YearIsLaterOrSame(film_year, last_release_year) ==
    ~StrGreater(last_release_year, film_year)

\* film_year > last_release_year
YearIsLater(film_year, last_release_year) ==
    StrGreater(film_year, last_release_year)

FilmIdResult(is_year_found, film_id, msg) ==
    [kind |-> "ok", is_year_found |-> is_year_found, film_id |-> film_id,
     msg |-> msg]

\* One iteration of `for idx, film in enumerate(films)` and the ones after
\* it; idx is 1-based here, 0-based in the code.
RECURSIVE ScanFrom(_, _, _, _, _)
ScanFrom(fs, y, idx, last_release_year, last_released_film_idx) ==
    IF idx > Len(fs)
    THEN FilmIdResult(FALSE, Str(fs[last_released_film_idx].filmId),
                      "latest_release")
    ELSE LET film_year == fs[idx].year
             later == YearIsLater(film_year, last_release_year)
         IN  IF MalformedYear(film_year)
             THEN Raise("APIAnswerWrongDataError")
             ELSE IF film_year = y
             THEN FilmIdResult(TRUE, Str(fs[idx].filmId), "year_found")
             ELSE ScanFrom(fs, y, idx + 1,
                           IF later THEN film_year ELSE last_release_year,
                           IF later THEN idx ELSE last_released_film_idx)

\* The scan with the `return` of the year match left out: the flag is set and
\* the loop runs on to its end.
RECURSIVE ScanNoReturnFrom(_, _, _, _, _, _)
ScanNoReturnFrom(fs, y, idx, last_release_year, last_released_film_idx, found) ==
    IF idx > Len(fs)
    THEN FilmIdResult(found, Str(fs[last_released_film_idx].filmId),
                      IF found THEN "year_found" ELSE "latest_release")
    ELSE LET film_year == fs[idx].year
             later == YearIsLater(film_year, last_release_year)
         IN  IF MalformedYear(film_year)
             THEN Raise("APIAnswerWrongDataError")
             ELSE ScanNoReturnFrom(fs, y, idx + 1,
                           IF later THEN film_year ELSE last_release_year,
                           IF later THEN idx ELSE last_released_film_idx,
                           found \/ film_year = y)

ScanNoReturn(fs, y) ==
    ScanNoReturnFrom(fs, y, 1, <<"0", "0", "0", "0">>, 1, FALSE)

\* get_film_id from `for idx, film in enumerate(films)` on, with
\* last_release_year = '0000' and last_released_film_idx = 0
ScanFilms(fs, y) == ScanFrom(fs, y, 1, <<"0", "0", "0", "0">>, 1)

\* ---- the inputs drawn for the scan ----
Y1950 == <<"1", "9", "5", "0">>
Y1999 == <<"1", "9", "9", "9">>
Y2005 == <<"2", "0", "0", "5">>
Y2010 == <<"2", "0", "1", "0">>
YShort == <<"2", "0", "1">>
YAlpha == <<"2", "0", "x", "0">>

CandidateYears == {Y1999, Y2005, Y2010, YShort, YAlpha}

RequestedYears == {Y1950, Y2005}

\* A search response's films: the candidate at position i has filmId 10 + i.
FilmsOf(ys) ==
    [i \in 1..Len(ys) |-> [filmId |-> 10 + i, year |-> ys[i], nameRu |-> "name"]]

FilmLists ==
    {FilmsOf(ys) : ys \in UNION {[1..n -> CandidateYears] : n \in 1..MaxFilms}}

\* ------------------------------------------------------------------------
\* KeyExtractor: get_film_name_year
\* ------------------------------------------------------------------------
\* SPLITTERS = r'[_.()]'
SPLITTERS == {"_", ".", "(", ")"}

\* YEAR_STAMP = r'(19|20)\d{2}' matches at position i of s
YearStampAt(s, i) ==
    /\ i + 3 <= Len(s)
    /\ \/ (s[i] = "1" /\ s[i + 1] = "9")
       \/ (s[i] = "2" /\ s[i + 1] = "0")
    /\ s[i + 2] \in DigitSet
    /\ s[i + 3] \in DigitSet

\* re.sub(r'\s+', ' ', title).strip() after re.sub(SPLITTERS, ' ', raw_title):
\* pending is TRUE when a space is owed before the next character kept
RECURSIVE CleanTitleFrom(_, _, _, _)
CleanTitleFrom(s, i, out, pending) ==
    IF i > Len(s) THEN out
    ELSE IF s[i] \in SPLITTERS \/ s[i] = " "
    THEN CleanTitleFrom(s, i + 1, out, out # <<>>)
    ELSE CleanTitleFrom(s, i + 1,
                        (IF pending THEN Append(out, " ") ELSE out) \o <<s[i]>>,
                        FALSE)

\* get_film_name_year(raw_file_name): (title, year), or NoYearError
get_film_name_year(raw_file_name) ==
    LET starts == {i \in 1..Len(raw_file_name) : YearStampAt(raw_file_name, i)}
    IN  IF starts = {} THEN RaiseWith("NoYearError", raw_file_name)
        ELSE LET m == CHOOSE i \in starts : \A j \in starts : i <= j
             IN  [kind |-> "ok",
                  title |-> CleanTitleFrom(SubSeq(raw_file_name, 1, m - 1),
                                           1, <<>>, FALSE),
                  year |-> SubSeq(raw_file_name, m, m + 3)]

\* config/settings.py VIDEO_EXT
VIDEO_EXT == {".mp4", ".mkv", ".avi", ".mov"}

\* the sidecar's name put together without the dot: video_file_name + 'nfo'
NfoNameWithoutDot(video_file_name, listing) ==
    \E i \in 1..Len(listing) :
        listing[i].ext = "nfo" /\ listing[i].stem = video_file_name

\* is_nfo_file_exists(video_file_name, files): a file of the listing is named
\* video_file_name + '.nfo'
is_nfo_file_exists(video_file_name, listing) ==
    \E i \in 1..Len(listing) :
        listing[i].ext = ".nfo" /\ listing[i].stem = video_file_name

\* ------------------------------------------------------------------------
\* CatalogClient: status codes and the three request bodies
\* ------------------------------------------------------------------------
\* check_request_status(status_code): the exception raised, "" for none
check_request_status(status_code) ==
    CASE status_code = 401 -> "UnauthorisedError"
      [] status_code = 402 -> "RequestLimitExceededError"
      [] status_code = 429 -> "TooManyRequestsError"
      [] status_code = 200 -> ""
      [] status_code = 404 -> ""
      [] OTHER -> "APIConnectionError"

ReturnsNone == [kind |-> "none"]

\* What the three functions do with a response once requests.get returned or
\* raised: resp.sent is FALSE when requests.get raised RequestException,
\* resp.status is the status code, `parse` the rest of the function on the
\* JSON body.
AfterRequest(resp, request_params, parsed) ==
    IF ~resp.sent THEN RaiseWith("APIConnectionError", request_params)
    ELSE IF check_request_status(resp.status) = "APIConnectionError"
    THEN RaiseWith("APIConnectionError", <<"code">>)
    ELSE IF check_request_status(resp.status) # ""
    THEN Raise(check_request_status(resp.status))
    ELSE IF resp.status = 404 THEN ReturnsNone
    ELSE parsed

\* get_film_id(title, year) without its cache, on the response resp; the body
\* is a JSON object with or without the key 'films'
get_film_id_uncached(keyword, y, resp) ==
    AfterRequest(resp, <<"search">> \o keyword,
        IF ~resp.body.is_dict THEN RaiseWith("TypeError", <<"request_data">>)
        ELSE IF ~resp.body.has_films
        THEN RaiseWith("APIAnswerWrongDataError", <<"films">>)
        ELSE IF Len(resp.body.films) = 0 THEN RaiseWith("NoFilmsError", keyword)
        ELSE ScanFilms(resp.body.films, y))

\* get_raw_film_info(film_id) without its cache
get_raw_film_info_uncached(film_id, resp) ==
    AfterRequest(resp, <<"films">> \o film_id,
        IF ~resp.body.is_dict THEN RaiseWith("TypeError", <<"raw_film_info">>)
        ELSE [kind |-> "ok", raw_film_info |-> resp.body.film])

\* config/settings.py MAX_ACTORS
MAX_ACTORS == 10

\* the loop of get_raw_staff_info over raw_film_staff_info from position i on
RECURSIVE FilterStaffFrom(_, _, _, _)
FilterStaffFrom(people, i, max_actors, acc) ==
    IF i > Len(people) THEN acc
    ELSE LET person == people[i]
             withActor ==
                IF person.professionKey = "ACTOR" /\ Len(acc.ACTORS) < max_actors
                THEN [acc EXCEPT !.ACTORS = Append(@, person.person)]
                ELSE acc
             withDirector ==
                IF person.professionKey = "DIRECTOR"
                THEN [withActor EXCEPT !.DIRECTORS = Append(@, person.person)]
                ELSE withActor
         IN  FilterStaffFrom(people, i + 1, max_actors, withDirector)

\* get_raw_staff_info(film_id, max_actors) without its cache; the body is a
\* JSON array of persons
get_raw_staff_info_uncached(film_id, max_actors, resp) ==
    AfterRequest(resp, <<"staff">> \o film_id,
        IF ~resp.body.is_list
        THEN RaiseWith("TypeError", <<"raw_film_staff_info">>)
        ELSE [kind |-> "ok",
              raw_staff_info |->
                FilterStaffFrom(resp.body.people, 1, max_actors,
                                [ACTORS |-> <<>>, DIRECTORS |-> <<>>])])

\* ------------------------------------------------------------------------
\* CatalogClient: @ttl_cache(maxsize=GET_ID_CACHE_SIZE, ttl=GET_ID_TTL)
\* ------------------------------------------------------------------------
\* The caches of the three lookups: for each lookup its entries
\* [key, value, expired] in order of use, least recently used first, and
\* `born`, the entries of all three still inside their time window, oldest
\* first.  All three share the clock and the ttl, so the entries whose window
\* has passed are always the oldest ones; how much time a blocking request or
\* a sleep takes is not bounded, so any number of the oldest may have expired.
Lookups == {"id", "film", "staff"}

EmptyCache == [id |-> <<>>, film |-> <<>>, staff |-> <<>>, born |-> <<>>]

HasKey(entries, k) == \E i \in 1..Len(entries) : entries[i].key = k

\* the key is cached and its window has not passed
Live(entries, k) ==
    \E i \in 1..Len(entries) : entries[i].key = k /\ ~entries[i].expired

EntryOf(entries, k) == entries[CHOOSE i \in 1..Len(entries) : entries[i].key = k]

Without(entries, k) ==
    LET Keep(e) == e.key # k IN SelectSeq(entries, Keep)

\* a use of the key moves its entry to the most recently used end
Touch(entries, k) ==
    IF HasKey(entries, k)
    THEN Append(Without(entries, k), EntryOf(entries, k))
    ELSE entries

\* expire(): drop the entries whose window has passed
Purge(entries) ==
    LET Keep(e) == ~e.expired IN SelectSeq(entries, Keep)

\* cache[k] = v: expired entries go, then the least recently used ones while
\* the cache is full, then the entry is added as the most recently used
Store(entries, k, v) ==
    LET kept == Without(Purge(entries), k)
        room == IF Len(kept) >= MaxCacheEntries
                THEN SubSeq(kept, Len(kept) - MaxCacheEntries + 2, Len(kept))
                ELSE kept
    IN  Append(room, [key |-> k, value |-> v, expired |-> FALSE])

\* `born` after the entries of lookup fn became `entries` with k just stored
BornAfterStore(born, fn, entries, k) ==
    LET Keep(b) == b.fn # fn \/ (b.key # k /\ HasKey(entries, b.key))
    IN  Append(SelectSeq(born, Keep), [fn |-> fn, key |-> k])

\* a memoizing wrapper that takes a stored None for a miss
CallRefetchingNone(c, fn, k, outcome) ==
    IF Live(c[fn], k) /\ EntryOf(c[fn], k).value.kind # "none"
    THEN [cache |-> [c EXCEPT ![fn] = Touch(@, k)],
          result |-> EntryOf(c[fn], k).value,
          requested |-> FALSE]
    ELSE IF outcome.kind = "raise"
    THEN [cache |-> c, result |-> outcome, requested |-> TRUE]
    ELSE LET entries == Store(c[fn], k, outcome)
         IN  [cache |-> [c EXCEPT ![fn] = entries,
                                  !.born = BornAfterStore(@, fn, entries, k)],
              result |-> outcome,
              requested |-> TRUE]

\* The wrapper ttl_cache puts around a lookup, called with the key k when the
\* wrapped function would end in `outcome` on the response it gets: a live
\* entry is returned without a request; otherwise the function runs, and what
\* it returns (None too) is stored; what it raises is not.
CachedCall(c, fn, k, outcome) ==
    IF Live(c[fn], k)
    THEN [cache |-> [c EXCEPT ![fn] = Touch(@, k)],
          result |-> EntryOf(c[fn], k).value,
          requested |-> FALSE]
    ELSE IF outcome.kind = "raise"
    THEN [cache |-> c, result |-> outcome, requested |-> TRUE]
    ELSE LET entries == Store(c[fn], k, outcome)
         IN  [cache |-> [c EXCEPT ![fn] = entries,
                                  !.born = BornAfterStore(@, fn, entries, k)],
              result |-> outcome,
              requested |-> TRUE]

\* the oldest n live entries pass their window
Expire(c, n) ==
    LET Old(fn, k) == \E i \in 1..n : c.born[i].fn = fn /\ c.born[i].key = k
        Aged(fn) == [i \in 1..Len(c[fn]) |->
                        IF Old(fn, c[fn][i].key)
                        THEN [c[fn][i] EXCEPT !.expired = TRUE]
                        ELSE c[fn][i]]
    IN  [id |-> Aged("id"), film |-> Aged("film"), staff |-> Aged("staff"),
         born |-> SubSeq(c.born, n + 1, Len(c.born))]

\* ------------------------------------------------------------------------
\* JSON values and dicts
\* ------------------------------------------------------------------------
None_ == [t |-> "none", n |-> 0, s |-> <<>>]
IntV(n) == [t |-> "int", n |-> n, s |-> <<>>]
StrV(s) == [t |-> "str", n |-> 0, s |-> s]
\* a list of n elements (genres, countries)
ListV(n) == [t |-> "list", n |-> n, s |-> <<>>]

\* `if value:`
Truthy(v) ==
    CASE v.t = "none" -> FALSE
      [] v.t = "int" -> v.n # 0
      [] v.t = "str" -> v.s # <<>>
      [] v.t = "list" -> v.n > 0

\* A dict in insertion order: a sequence of [key, value] with distinct keys.
DictHas(d, k) == \E i \in 1..Len(d) : d[i].key = k

DictGet(d, k) == d[CHOOSE i \in 1..Len(d) : d[i].key = k].value

DictKeys(d) == {d[i].key : i \in 1..Len(d)}

\* d[k] = v
DictSet(d, k, v) ==
    IF DictHas(d, k)
    THEN [i \in 1..Len(d) |-> IF d[i].key = k THEN [key |-> k, value |-> v]
                                               ELSE d[i]]
    ELSE Append(d, [key |-> k, value |-> v])

\* ------------------------------------------------------------------------
\* RecordNormalizer: get_clean_film_info
\* ------------------------------------------------------------------------
\* config/settings.py FILM_INFO_STRUCTURE, in its order
FILM_INFO_STRUCTURE == <<
    [key |-> "title", api_field |-> "nameRu"],
    [key |-> "originaltitle", api_field |-> "nameOriginal"],
    [key |-> "year", api_field |-> "year"],
    [key |-> "plot", api_field |-> "description"],
    [key |-> "runtime", api_field |-> "filmLength"],
    [key |-> "rating", api_field |-> "ratingKinopoisk"],
    [key |-> "votes", api_field |-> "ratingKinopoiskVoteCount"],
    [key |-> "mpaa", api_field |-> "ratingMpaa"],
    [key |-> "certification", api_field |-> "ratingMpaa"],
    [key |-> "genres", api_field |-> "genres"],
    [key |-> "countries", api_field |-> "countries"],
    [key |-> "kinopoisk_id", api_field |-> "kinopoiskId"],
    [key |-> "poster", api_field |-> "posterUrl"],
    [key |-> "fanart", api_field |-> "coverUrl"] >>

ApiFields == {FILM_INFO_STRUCTURE[i].api_field : i \in 1..Len(FILM_INFO_STRUCTURE)}

\* int(value): the number, or the exception it raises
IntOf(value) ==
    CASE value.t = "int" -> [ok |-> TRUE, n |-> value.n]
      [] value.t = "str" ->
            IF IsDigitStr(value.s) THEN [ok |-> TRUE, n |-> IntOfDigits(value.s)]
            ELSE [ok |-> FALSE, n |-> 0]           \* ValueError
      [] OTHER -> [ok |-> FALSE, n |-> 0]          \* TypeError

\* the runtime conversion with the factor left out
RuntimeUnscaled(value) ==
    IF IntOf(value).ok THEN IntV(IntOf(value).n) ELSE None_

\* try: int(value) * 60  except (TypeError, ValueError): None
RuntimeValue(value) ==
    IF IntOf(value).ok THEN IntV(IntOf(value).n * 60) ELSE None_

\* only 'poster' is diverted
IsPosterKeyOnly(key) == key = "poster"

\* key in ('poster', 'fanart')
IsPosterKey(key) == key \in {"poster", "fanart"}

\* The body of `for key, api_field in FILM_INFO_STRUCTURE.items()` for the
\* entries from position i on; acc holds clean_film_info, posters_urls and
\* empty_fields.
RECURSIVE CleanFilmFrom(_, _, _)
CleanFilmFrom(raw, i, acc) ==
    IF i > Len(FILM_INFO_STRUCTURE) THEN acc
    ELSE LET key == FILM_INFO_STRUCTURE[i].key
             value == raw[FILM_INFO_STRUCTURE[i].api_field]
             next ==
                IF Truthy(value)
                THEN IF key = "runtime"
                     THEN [acc EXCEPT
                            !.clean_film_info = DictSet(@, key, RuntimeValue(value)),
                            !.empty_fields =
                                IF RuntimeValue(value) = None_
                                THEN Append(@, key) ELSE @]
                     ELSE IF IsPosterKey(key)
                     THEN [acc EXCEPT !.posters_urls = DictSet(@, key, value)]
                     ELSE [acc EXCEPT !.clean_film_info = DictSet(@, key, value)]
                ELSE [acc EXCEPT !.empty_fields = Append(@, key)]
         IN  CleanFilmFrom(raw, i + 1, next)

\* a normalizer that keeps 'title' and 'year' whatever their source values
CleanFilmKeepingEmpty(raw) ==
    LET done == CleanFilmFrom(raw, 1,
                    [kind |-> "ok",
                     clean_film_info |-> <<>>,
                     posters_urls |-> <<[key |-> "poster", value |-> None_],
                                        [key |-> "cover", value |-> None_]>>,
                     empty_fields |-> <<>>])
    IN  [done EXCEPT !.clean_film_info =
            DictSet(DictSet(@, "title", raw["nameRu"]), "year", raw["year"])]

\* get_clean_film_info(raw_film_info) for a dict argument; empty_fields stands
\* for empty_fields_str, the keys joined by ', '.
get_clean_film_info(raw) ==
    CleanFilmFrom(raw, 1,
        [kind |-> "ok",
         clean_film_info |-> <<>>,
         posters_urls |-> <<[key |-> "poster", value |-> None_],
                            [key |-> "cover", value |-> None_]>>,
         empty_fields |-> <<>>])

\* ------------------------------------------------------------------------
\* RecordNormalizer: get_clean_staff_info
\* ------------------------------------------------------------------------
\* person_name: nameRu if truthy, else nameEn if truthy, else None
PersonName(person) ==
    IF Truthy(person.nameRu) THEN person.nameRu
    ELSE IF Truthy(person.nameEn) THEN person.nameEn
    ELSE None_

\* The body of `for person in persons` for the persons of one profession from
\* position i on; acc holds clean_staff_info, staff_posters and empty_posters.
RECURSIVE CleanPersonsFrom(_, _, _, _)
CleanPersonsFrom(profession, persons, i, acc) ==
    IF i > Len(persons) THEN acc
    ELSE LET person == persons[i]
             person_name == PersonName(person)
             rostered ==
                IF Truthy(person_name)
                THEN [acc EXCEPT !.clean_staff_info[profession] =
                        Append(@, [name |-> person_name,
                                   role |-> person.description])]
                ELSE acc
             next ==
                IF Truthy(person.posterUrl)
                THEN [rostered EXCEPT !.staff_posters =
                        DictSet(@, person_name, person.posterUrl)]
                ELSE [rostered EXCEPT !.empty_posters = Append(@, person_name)]
         IN  CleanPersonsFrom(profession, persons, i + 1, next)

\* ', '.join(empty_posters) raises TypeError on an item that is not a str
JoinRaises(items) == \E i \in 1..Len(items) : items[i].t # "str"

\* the item the TypeError of join names
FirstNonStr(items) ==
    CHOOSE i \in 1..Len(items) :
        items[i].t # "str" /\ \A j \in 1..(i - 1) : items[j].t = "str"

\* get_clean_staff_info(raw_staff_info) for a dict argument with the buckets
\* ACTORS and DIRECTORS, in that order; empty_posters stands for
\* empty_posters_str.
get_clean_staff_info(raw) ==
    LET start == [kind |-> "ok",
                  clean_staff_info |-> [ACTORS |-> <<>>, DIRECTORS |-> <<>>],
                  staff_posters |-> <<>>,
                  empty_posters |-> <<>>]
        actors == CleanPersonsFrom("ACTORS", raw.ACTORS, 1, start)
        all == CleanPersonsFrom("DIRECTORS", raw.DIRECTORS, 1, actors)
    IN  IF JoinRaises(all.empty_posters)
        THEN RaiseWith("TypeError", <<"item">> \o Str(FirstNonStr(all.empty_posters) - 1))
        ELSE all

\* ------------------------------------------------------------------------
\* ArtworkFetcher: create_posters
\* ------------------------------------------------------------------------
\* os.path.join(root, f'{raw_file_name}-{key}.jpg'), as its pieces
PosterFile(raw_file_name, key) ==
    [dir |-> "root", stem |-> raw_file_name \o <<"-", key>>, ext |-> ".jpg"]

\* re.sub(' ', '_', name)
Underscored(name) == [i \in 1..Len(name) |-> IF name[i] = " " THEN "_" ELSE name[i]]

\* os.path.join(root, '.actors', f"{name}.jpg")
ActorFile(name) == [dir |-> ".actors", stem |-> Underscored(name), ext |-> ".jpg"]

\* What the two loops of create_posters do in order: one entry per file they
\* write, or an entry that raises (re.sub on a None name).
RECURSIVE FilmDownloads(_, _, _)
FilmDownloads(posters_urls, raw_file_name, i) ==
    IF i > Len(posters_urls) THEN <<>>
    ELSE (IF Truthy(posters_urls[i].value)
          THEN <<[raises |-> FALSE,
                  file |-> PosterFile(raw_file_name, posters_urls[i].key),
                  url |-> posters_urls[i].value]>>
          ELSE <<>>)
         \o FilmDownloads(posters_urls, raw_file_name, i + 1)

RECURSIVE StaffDownloads(_, _)
StaffDownloads(staff_posters, i) ==
    IF i > Len(staff_posters) THEN <<>>
    ELSE (IF staff_posters[i].key = None_
          THEN <<[raises |-> TRUE, file |-> ActorFile(<<>>),
                  url |-> staff_posters[i].value]>>
          ELSE <<[raises |-> FALSE, file |-> ActorFile(staff_posters[i].key.s),
                  url |-> staff_posters[i].value]>>)
         \o StaffDownloads(staff_posters, i + 1)

Downloads(posters_urls, staff_posters, raw_file_name) ==
    FilmDownloads(posters_urls, raw_file_name, 1) \o StaffDownloads(staff_posters, 1)

\* the downloads that complete before the first one that raises; fail_at is the
\* download at which the network or the disk fails (0: none does)
FirstRaise(downloads, fail_at) ==
    LET bad == {i \in 1..Len(downloads) : downloads[i].raises \/ i = fail_at}
    IN  IF bad = {} THEN Len(downloads) + 1
        ELSE CHOOSE i \in bad : \A j \in bad : i <= j

\* create_posters(posters_urls, staff_posters, root, raw_file_name): the files
\* written (name and the url whose content they hold) and the (is_ok, msg)
\* returned; every exception ends in `except Exception`.
create_posters(posters_urls, staff_posters, raw_file_name, fail_at) ==
    LET downloads == Downloads(posters_urls, staff_posters, raw_file_name)
        stop == FirstRaise(downloads, fail_at)
    IN  [written |-> [i \in 1..(stop - 1) |->
                        [file |-> downloads[i].file, url |-> downloads[i].url]],
         result |-> IF stop > Len(downloads)
                    THEN [kind |-> "ok", is_ok |-> TRUE, msg |-> "posters_saved"]
                    ELSE [kind |-> "ok", is_ok |-> FALSE, msg |-> "posters_error"]]

\* ------------------------------------------------------------------------
\* The inputs drawn for the normalizers
\* ------------------------------------------------------------------------
Url(c) == StrV(<<"h", ":", c>>)

\* a value the catalog gives for a field when it has one
SampleValue(field) ==
    CASE field = "nameRu" -> StrV(<<"T">>)
      [] field = "nameOriginal" -> StrV(<<"O">>)
      [] field = "year" -> IntV(2010)
      [] field = "description" -> StrV(<<"d">>)
      [] field = "filmLength" -> IntV(120)
      [] field = "ratingKinopoisk" -> IntV(8)
      [] field = "ratingKinopoiskVoteCount" -> IntV(500)
      [] field = "ratingMpaa" -> StrV(<<"r">>)
      [] field = "genres" -> ListV(2)
      [] field = "countries" -> ListV(1)
      [] field = "kinopoiskId" -> IntV(301)
      [] field = "posterUrl" -> Url("p")
      [] field = "coverUrl" -> Url("c")

FilmLengths ==
    {None_, IntV(0), IntV(2), IntV(120), StrV(<<"1", "2", "0">>),
     StrV(<<"x">>), ListV(1)}

PlainFields ==
    ApiFields \ {"nameRu", "year", "filmLength", "posterUrl", "coverUrl"}

\* film-detail objects: the runtime, the two image urls, the title and the
\* year vary freely, and up to MaxAbsentFields of the other fields are missing
RawFilms ==
    {[f \in ApiFields |->
        CASE f = "filmLength" -> len
          [] f \in {"nameRu", "year", "posterUrl", "coverUrl"} ->
                IF f \in present THEN SampleValue(f) ELSE None_
          [] OTHER -> IF f \in absent THEN None_ ELSE SampleValue(f)] :
     len \in FilmLengths,
     present \in SUBSET {"nameRu", "year", "posterUrl", "coverUrl"},
     absent \in {a \in SUBSET PlainFields : Cardinality(a) <= MaxAbsentFields}}

\* a complete film-detail object
SampleFilm == [f \in ApiFields |-> SampleValue(f)]

Persons ==
    [nameRu : {None_, StrV(<<"I", " ", "P">>)},
     nameEn : {None_, StrV(<<"J", "D">>)},
     description : {StrV(<<"r">>)},
     posterUrl : {None_, Url("f")}]

PersonLists(n) == UNION {[1..k -> Persons] : k \in 0..n}

\* filtered staff records of at most MaxPersons persons
RawStaffs ==
    UNION {[ACTORS : PersonLists(a), DIRECTORS : PersonLists(MaxPersons - a)] :
           a \in 0..MaxPersons}

NoRawStaff == [ACTORS |-> <<>>, DIRECTORS |-> <<>>]

\* file names without extension: 'A.2010', 'B_X.1999' and 'N'
StemA == <<"A", ".", "2", "0", "1", "0">>
StemB == <<"B", "_", "X", ".", "1", "9", "9", "9">>
StemN == <<"N">>
StemT == <<"t">>

RawFileName == StemA

FilmIdle ==
    /\ raw_film_info = SampleFilm
    /\ clean_film = NotYet
    /\ art_files = <<>>
    /\ art_result = NotYet

StaffIdle ==
    /\ raw_staff_info = NoRawStaff
    /\ clean_staff = NotYet

\* ------------------------------------------------------------------------
\* The directory, the notification channel and the catalog as the poll loop
\* meets them
\* ------------------------------------------------------------------------
Entry(stem, ext) == [stem |-> stem, ext |-> ext]

\* the files a directory may hold at the start: three videos, the sidecar of
\* the first, and a file that is no video
Entries ==
    {Entry(StemA, ".mkv"), Entry(StemB, ".avi"), Entry(StemN, ".mkv"),
     Entry(StemA, ".nfo"), Entry(StemT, ".txt")}

\* listings of 1..MaxFiles distinct files
EntryLists ==
    {l \in UNION {[1..n -> Entries] : n \in 1..MaxFiles} :
        \A a, b \in 1..Len(l) : a # b => l[a] # l[b]}

Statuses == {200, 404, 401}

NoBody == [is_dict |-> FALSE, is_list |-> FALSE]

\* what the search endpoint may answer
SearchBodies ==
    {[is_dict |-> TRUE, has_films |-> TRUE, films |-> fs] :
        fs \in {<<>>, FilmsOf(<<Y1999, Y2005>>), FilmsOf(<<YShort>>)}}

\* a film-detail object without nameRu
UntitledFilm == [SampleFilm EXCEPT !["nameRu"] = None_]

\* a film-detail object whose year is 0
YearlessFilm == [SampleFilm EXCEPT !["year"] = IntV(0)]

FilmBodies ==
    {[is_dict |-> TRUE, film |-> f] : f \in {SampleFilm, UntitledFilm, YearlessFilm}}

Actor(person) == [professionKey |-> "ACTOR", person |-> person]

NamedPerson ==
    [nameRu |-> StrV(<<"I", " ", "P">>), nameEn |-> None_,
     description |-> StrV(<<"r">>), posterUrl |-> Url("f")]

NamelessPerson ==
    [nameRu |-> None_, nameEn |-> None_,
     description |-> StrV(<<"r">>), posterUrl |-> None_]

StaffBodies ==
    {[is_list |-> TRUE, people |-> ps] :
        ps \in {<<Actor(NamedPerson)>>, <<Actor(NamelessPerson)>>}}

\* the answers to one request: requests.get raised, or a status with a body
Responses(bodies) ==
    {[sent |-> FALSE, status |-> 0, body |-> NoBody]}
    \cup {[sent |-> TRUE, status |-> st, body |-> NoBody] : st \in Statuses \ {200}}
    \cup {[sent |-> TRUE, status |-> 200, body |-> b] : b \in bodies}

\* how bot.send_message may end inside send_message: delivered (True), an
\* ApiTelegramException or RequestException (False), any other exception
SendOutcomes == {"delivered", "failed", "raised"}

NoException == [kind |-> "none"]
NoLookup == [fn |-> "none"]
NoOutbox == [kind |-> "none", text |-> <<>>, outcome |-> "none"]

\* latest_error_msg = ''
NoError == [exc |-> "", detail |-> <<>>]

LoopIdle ==
    /\ dir_files = <<>>
    /\ written = <<>>
    /\ pc = "off"
    /\ files = <<>>
    /\ pos = 0
    /\ title = <<>>
    /\ files_processed = 0
    /\ message = <<>>
    /\ new_files = 0
    /\ bot_message = <<>>
    /\ latest_error_msg = NoError
    /\ outbox = NoOutbox
    /\ cache = EmptyCache
    /\ lookup = NoLookup
    /\ attempted = {}
    /\ events = <<>>
    /\ last_exc = NoException
    /\ quiet = 0
    /\ recent = <<>>
    /\ cycles = 0

NoFilms == <<>>
NoYear == <<>>

ResolveIdle ==
    /\ films = NoFilms
    /\ year = NoYear
    /\ resolved = NotYet

InitResolve ==
    /\ LoopIdle
    /\ films \in FilmLists
    /\ year \in RequestedYears
    /\ resolved = NotYet
    /\ FilmIdle
    /\ StaffIdle

\* get_film_id runs its scan on the films of the response
Resolve ==
    /\ films # NoFilms
    /\ ~Ran(resolved)
    /\ resolved' = ScanFilms(films, year)
    /\ UNCHANGED <<films, year>>
    /\ UNCHANGED filmVars
    /\ UNCHANGED staffVars
    /\ UNCHANGED loopVars
    /\ UNCHANGED historyVars

NextResolve == Resolve

SpecResolve == InitResolve /\ [][NextResolve]_vars

\* ------------------------------------------------------------------------
\* The normalizers and the artwork fetcher on drawn catalog records
\* ------------------------------------------------------------------------
InitNormalize ==
    /\ LoopIdle
    /\ ResolveIdle
    /\ art_files = <<>>
    /\ art_result = NotYet
    /\ \/ /\ raw_film_info \in RawFilms
          /\ clean_film = NotYet
          /\ StaffIdle
       \/ /\ raw_film_info = SampleFilm
          /\ clean_film = NotYet
          /\ raw_staff_info \in RawStaffs
          /\ clean_staff = NotYet

NormalizeFilm ==
    /\ ~Ran(clean_film)
    /\ clean_film' = get_clean_film_info(raw_film_info)
    /\ UNCHANGED <<raw_film_info, art_files, art_result>>
    /\ UNCHANGED resolveVars
    /\ UNCHANGED staffVars
    /\ UNCHANGED loopVars
    /\ UNCHANGED historyVars

NormalizeStaff ==
    /\ ~Ran(clean_staff)
    /\ clean_staff' = get_clean_staff_info(raw_staff_info)
    /\ UNCHANGED raw_staff_info
    /\ UNCHANGED resolveVars
    /\ UNCHANGED filmVars
    /\ UNCHANGED loopVars
    /\ UNCHANGED historyVars

\* process_folder reaches create_posters only past the summary line that reads
\* clean_film_info['title'] and ['year'], and past get_clean_staff_info
FetchArtwork ==
    /\ clean_film.kind = "ok"
    /\ DictHas(clean_film.clean_film_info, "title")
    /\ DictHas(clean_film.clean_film_info, "year")
    /\ clean_staff.kind = "ok"
    /\ ~Ran(art_result)
    /\ \E fail_at \in 0..Len(Downloads(clean_film.posters_urls,
                                       clean_staff.staff_posters, RawFileName)) :
          LET out == create_posters(clean_film.posters_urls,
                                    clean_staff.staff_posters, RawFileName, fail_at)
          IN  /\ art_files' = out.written
              /\ art_result' = out.result
    /\ UNCHANGED <<raw_film_info, clean_film>>
    /\ UNCHANGED resolveVars
    /\ UNCHANGED staffVars
    /\ UNCHANGED loopVars
    /\ UNCHANGED historyVars

NextNormalize == NormalizeFilm \/ NormalizeStaff \/ FetchArtwork

SpecNormalize == InitNormalize /\ [][NextNormalize]_vars

\* ------------------------------------------------------------------------
\* SidecarWriter: create_nfo
\* ------------------------------------------------------------------------
\* os.path.join(path, raw_file_name + '.nfo')
NfoFile(raw_file_name) == [dir |-> "root", stem |-> raw_file_name, ext |-> ".nfo"]

\* where create_nfo may meet an exception: nowhere, while it builds and
\* serialises the document, in open(), in f.write() after open() made the file
NfoFaults == {"none", "render", "open", "write"}

\* a create_nfo whose body is not inside try/except
create_nfo_unguarded(clean_film_info, clean_staff_info, raw_file_name, fault) ==
    IF fault = "none"
    THEN [written |-> <<[file |-> NfoFile(raw_file_name), url |-> StrV(<<"xml">>)]>>,
          result |-> [kind |-> "ok", is_ok |-> TRUE, msg |-> "nfo_created"]]
    ELSE [written |-> IF fault = "write"
                      THEN <<[file |-> NfoFile(raw_file_name), url |-> None_]>>
                      ELSE <<>>,
          result |-> RaiseWith(IF fault = "render" THEN "TypeError" ELSE "OSError",
                               <<fault>>)]

\* create_nfo(clean_film_info, clean_staff_info, path, raw_file_name): the file
\* written (url stands for its content, None_ for an unfinished one) and the
\* (is_ok, msg) returned; every exception ends in `except Exception`.
create_nfo(clean_film_info, clean_staff_info, raw_file_name, fault) ==
    IF fault = "none"
    THEN [written |-> <<[file |-> NfoFile(raw_file_name), url |-> StrV(<<"xml">>)]>>,
          result |-> [kind |-> "ok", is_ok |-> TRUE, msg |-> "nfo_created"]]
    ELSE [written |-> IF fault = "write"
                      THEN <<[file |-> NfoFile(raw_file_name), url |-> None_]>>
                      ELSE <<>>,
          result |-> [kind |-> "ok", is_ok |-> FALSE, msg |-> "nfo_error"]]

\* ------------------------------------------------------------------------
\* The poll loop: main and process_folder
\* ------------------------------------------------------------------------
\* a file written again replaces the one of that name
AddFile(disk, f) ==
    IF \E j \in 1..Len(disk) : disk[j].file = f.file
    THEN [j \in 1..Len(disk) |-> IF disk[j].file = f.file THEN f ELSE disk[j]]
    ELSE Append(disk, f)

RECURSIVE AddFiles(_, _)
AddFiles(disk, fs) ==
    IF fs = <<>> THEN disk ELSE AddFiles(AddFile(disk, Head(fs)), Tail(fs))

\* os.walk's `files` for the folder: what it held at the start and what the
\* program wrote into it (the actors' images go to the subfolder .actors)
Listing ==
    LET InRoot(w) == w.file.dir = "root"
        here == SelectSeq(written, InRoot)
    IN  dir_files \o [j \in 1..Len(here) |-> Entry(here[j].file.stem, here[j].file.ext)]

Line(text) == [file |-> pos, text |-> text]

Event(what, exc) == [file |-> pos, what |-> what, exc |-> exc]

\* the frame of process_folder's current file is left
ResetLocals ==
    /\ title' = <<>>
    /\ year' = NoYear
    /\ resolved' = NotYet
    /\ raw_film_info' = SampleFilm
    /\ clean_film' = NotYet
    /\ art_files' = <<>>
    /\ art_result' = NotYet
    /\ raw_staff_info' = NoRawStaff
    /\ clean_staff' = NotYet

\* a handler that sends every error text, the last one recorded too
HandleAlwaysSending(e) ==
    LET error_message == [exc |-> e.exc, detail |-> e.detail]
    IN  /\ last_exc' = e
        /\ pc' = "sleep"
        /\ \E o \in SendOutcomes :
             /\ outbox' = [kind |-> "error", text |-> error_message, outcome |-> o]
             /\ latest_error_msg' = IF o = "raised" THEN latest_error_msg
                                    ELSE error_message
             /\ quiet' = IF o = "raised" THEN quiet ELSE 0

\* main's `except Exception as error`: the text goes out if it differs from
\* the last one recorded, and is recorded unless send_message itself raised
Handle(e) ==
    LET error_message == [exc |-> e.exc, detail |-> e.detail]
    IN  /\ last_exc' = e
        /\ pc' = "sleep"
        /\ IF error_message # latest_error_msg
           THEN \E o \in SendOutcomes :
                  /\ outbox' = [kind |-> "error", text |-> error_message,
                                outcome |-> o]
                  /\ latest_error_msg' = IF o = "raised" THEN latest_error_msg
                                         ELSE error_message
                  /\ quiet' = IF o = "raised" THEN quiet ELSE 0
           ELSE UNCHANGED <<latest_error_msg, outbox, quiet>>

\* an exception leaves process_folder: its files_processed and message are
\* lost with it, main's new_files and bot_message stay as they were
Abort(e) ==
    /\ Handle(e)
    /\ ResetLocals
    /\ files_processed' = 0
    /\ message' = <<>>
    /\ events' = Append(events, Event("failure", e.exc))
    /\ UNCHANGED <<films, dir_files, files, pos, new_files, bot_message>>

Init ==
    /\ dir_files \in EntryLists
    /\ written = <<>>
    /\ pc = "poll"
    /\ files = <<>>
    /\ pos = 0
    /\ title = <<>>
    /\ files_processed = 0
    /\ message = <<>>
    /\ new_files = 0
    /\ bot_message = <<>>
    /\ latest_error_msg = NoError
    /\ outbox = NoOutbox
    /\ cache = EmptyCache
    /\ lookup = NoLookup
    /\ attempted = {}
    /\ events = <<>>
    /\ last_exc = NoException
    /\ quiet = 0
    /\ recent = <<>>
    /\ cycles = 0
    /\ ResolveIdle
    /\ FilmIdle
    /\ StaffIdle

\* `try:` of a pass: check_vars passes, os.walk lists the folder and
\* process_folder starts on it
Poll ==
    /\ pc = "poll"
    /\ cycles' = cycles + 1
    /\ pc' = "file"
    /\ files' = Listing
    /\ pos' = 1
    /\ files_processed' = 0
    /\ message' = <<>>
    /\ UNCHANGED <<resolveVars, filmVars, staffVars, dir_files, written, title,
                   new_files, bot_message, latest_error_msg, outbox, cache, lookup,
                   attempted, events, last_exc, quiet,
                   recent>>

\* `for file in files`: a file that is no video or has its sidecar in the listing
SkipFile ==
    /\ pc = "file"
    /\ pos <= Len(files)
    /\ \/ files[pos].ext \notin VIDEO_EXT
       \/ is_nfo_file_exists(files[pos].stem, files)
    /\ pos' = pos + 1
    /\ UNCHANGED <<resolveVars, filmVars, staffVars, dir_files, written, pc, files,
                   title, files_processed, message, new_files, bot_message,
                   latest_error_msg, outbox, cache, historyVars>>

\* a video without sidecar: it is counted and its name is parsed
StartFile ==
    /\ pc = "file"
    /\ pos <= Len(files)
    /\ files[pos].ext \in VIDEO_EXT
    /\ ~is_nfo_file_exists(files[pos].stem, files)
    /\ attempted' = attempted \cup {pos}
    /\ LET name_year == get_film_name_year(files[pos].stem)
       IN  IF name_year.kind = "raise"
           THEN Abort(name_year)
           ELSE /\ files_processed' = files_processed + 1
                /\ title' = name_year.title
                /\ year' = name_year.year
                /\ pc' = "search"
                /\ UNCHANGED <<films, resolved, filmVars, staffVars, dir_files,
                               files, pos, message, new_files, bot_message,
                               latest_error_msg, outbox, events, last_exc,
                                    quiet>>
    /\ UNCHANGED <<written, cache, lookup, recent, cycles>>

\* a check for None that never finds one
IsNoneNever(result) == FALSE

\* `if result_film_id is None`, `if result_raw_film_info is None`,
\* `if result_raw_staff_info is None`
IsNone(result) == result.kind = "none"

\* the latest returned call of lookup fn with key k inside the time window
Recalled(fn, k) == \E j \in 1..Len(recent) : recent[j].fn = fn /\ recent[j].key = k

RecalledResult(fn, k) ==
    recent[CHOOSE j \in 1..Len(recent) : recent[j].fn = fn /\ recent[j].key = k].result

\* One call of a cached lookup with key k, ending in `outcome` if the wrapped
\* function runs: the cache after it, what the call was and gave, and the
\* record of the calls that returned
Call(fn, k, call) ==
    /\ cache' = call.cache
    /\ lookup' = [fn |-> fn, key |-> k,
                  requested |-> call.requested,
                  result |-> call.result,
                  within |-> Recalled(fn, k),
                  first |-> IF Recalled(fn, k) THEN RecalledResult(fn, k) ELSE NotYet,
                  kept |-> HasKey(cache[fn], k)]
    /\ recent' = IF call.requested /\ call.result.kind # "raise"
                 THEN LET Other(r) == r.fn # fn \/ r.key # k
                      IN  Append(SelectSeq(recent, Other),
                                 [fn |-> fn, key |-> k, result |-> call.result])
                 ELSE recent

\* result_film_id = get_film_id(title, year), and the raise on None
Search ==
    /\ pc = "search"
    /\ \E resp \in Responses(SearchBodies) :
         LET k == <<title, year>>
             call == CachedCall(cache, "id", k, get_film_id_uncached(title, year, resp))
         IN  /\ Call("id", k, call)
             /\ IF call.result.kind = "raise"
                THEN Abort(call.result)
                ELSE IF IsNone(call.result)
                THEN Abort(RaiseWith("NotFoundError", <<"id">> \o title \o year))
                ELSE /\ resolved' = call.result
                     /\ pc' = "film"
                     /\ UNCHANGED <<films, year, filmVars, staffVars, dir_files,
                                    files, pos, title, files_processed, message,
                                    new_files, bot_message, latest_error_msg,
                                    outbox, events, last_exc,
                                    quiet>>
    /\ UNCHANGED <<written, attempted, cycles>>

\* result_raw_film_info = get_raw_film_info(film_id), and the raise on None
Film ==
    /\ pc = "film"
    /\ \E resp \in Responses(FilmBodies) :
         LET k == <<resolved.film_id>>
             call == CachedCall(cache, "film", k,
                                get_raw_film_info_uncached(resolved.film_id, resp))
         IN  /\ Call("film", k, call)
             /\ IF call.result.kind = "raise"
                THEN Abort(call.result)
                ELSE IF IsNone(call.result)
                THEN Abort(RaiseWith("NotFoundError",
                                     <<"films">> \o resolved.film_id))
                ELSE /\ raw_film_info' = call.result.raw_film_info
                     /\ pc' = "staff"
                     /\ UNCHANGED <<resolveVars, clean_film, art_files, art_result,
                                    staffVars, dir_files, files, pos, title,
                                    files_processed, message, new_files,
                                    bot_message, latest_error_msg, outbox, events,
                                    last_exc, quiet>>
    /\ UNCHANGED <<written, attempted, cycles>>

\* result_raw_staff_info = get_raw_staff_info(film_id, MAX_ACTORS), and the
\* raise on None
Staff ==
    /\ pc = "staff"
    /\ \E resp \in Responses(StaffBodies) :
         LET k == <<resolved.film_id, MAX_ACTORS>>
             call == CachedCall(cache, "staff", k,
                                get_raw_staff_info_uncached(resolved.film_id,
                                                            MAX_ACTORS, resp))
         IN  /\ Call("staff", k, call)
             /\ IF call.result.kind = "raise"
                THEN Abort(call.result)
                ELSE IF IsNone(call.result)
                THEN Abort(RaiseWith("NotFoundError",
                                     <<"staff">> \o resolved.film_id))
                ELSE /\ raw_staff_info' = call.result.raw_staff_info
                     /\ pc' = "normalize"
                     /\ UNCHANGED <<resolveVars, filmVars, clean_staff, dir_files,
                                    files, pos, title, files_processed, message,
                                    new_files, bot_message, latest_error_msg,
                                    outbox, events, last_exc,
                                    quiet>>
    /\ UNCHANGED <<written, attempted, cycles>>

\* get_clean_film_info, the header line of the summary (a KeyError when the
\* document has no 'title' or no 'year'), get_clean_staff_info
Normalize ==
    /\ pc = "normalize"
    /\ LET film == get_clean_film_info(raw_film_info)
           staff == get_clean_staff_info(raw_staff_info)
       IN  IF ~DictHas(film.clean_film_info, "title")
           THEN Abort(RaiseWith("KeyError", <<"title">>))
           ELSE IF ~DictHas(film.clean_film_info, "year")
           THEN Abort(RaiseWith("KeyError", <<"year">>))
           ELSE IF staff.kind = "raise"
           THEN Abort(staff)
           ELSE /\ clean_film' = film
                /\ clean_staff' = staff
                /\ message' = Append(message, Line("header"))
                /\ pc' = "nfo"
                /\ UNCHANGED <<resolveVars, raw_film_info, art_files, art_result,
                               raw_staff_info, dir_files, files, pos, title,
                               files_processed, new_files, bot_message,
                               latest_error_msg, outbox, events, last_exc,
                                    quiet>>
    /\ lookup' = NoLookup
    /\ UNCHANGED <<written, cache, attempted, recent, cycles>>

\* is_ok, msg = create_nfo(...); message += msg
Nfo ==
    /\ pc = "nfo"
    /\ \E fault \in NfoFaults :
         LET out == create_nfo(clean_film.clean_film_info,
                               clean_staff.clean_staff_info, files[pos].stem, fault)
         IN  /\ written' = AddFiles(written, out.written)
             /\ IF out.result.kind = "raise"
                THEN Abort(out.result)
                ELSE /\ message' = Append(message, Line(out.result.msg))
                     /\ events' = IF out.result.is_ok THEN events
                                  ELSE Append(events, Event("nfo_error", ""))
                     /\ pc' = "posters"
                     /\ UNCHANGED <<resolveVars, filmVars, staffVars, dir_files,
                                    files, pos, title, files_processed, new_files,
                                    bot_message, latest_error_msg, outbox, last_exc,
                                    quiet>>
    /\ lookup' = NoLookup
    /\ UNCHANGED <<cache, attempted, recent, cycles>>

\* is_ok, msg = create_posters(...); message += msg; the note of a match
\* without the year; then the next file
Posters ==
    /\ pc = "posters"
    /\ \E fail_at \in 0..Len(Downloads(clean_film.posters_urls,
                                       clean_staff.staff_posters, files[pos].stem)) :
         LET out == create_posters(clean_film.posters_urls,
                                   clean_staff.staff_posters, files[pos].stem, fail_at)
             reported == Append(message, Line(out.result.msg))
             failed == IF out.result.is_ok THEN events
                       ELSE Append(events, Event("posters_error", ""))
         IN  /\ written' = AddFiles(written, out.written)
             /\ IF out.result.kind = "raise"
                THEN Abort(out.result)
                ELSE /\ message' = IF resolved.is_year_found THEN reported
                                   ELSE Append(reported, Line("msg_id"))
                     /\ events' = IF resolved.is_year_found THEN failed
                                  ELSE Append(failed, Event("degraded", ""))
                     /\ pos' = pos + 1
                     /\ pc' = "file"
                     /\ ResetLocals
                     /\ UNCHANGED <<films, dir_files, files, files_processed,
                                    new_files, bot_message, latest_error_msg,
                                    outbox, last_exc, quiet>>
    /\ lookup' = NoLookup
    /\ UNCHANGED <<cache, attempted, recent, cycles>>

\* process_folder returns; main adds the folder's summary and the count and
\* sends them if a file was processed.  An exception that send_message does not
\* catch reaches main's handler.
EndFolder ==
    /\ pc = "file"
    /\ pos > Len(files)
    /\ LET with_folder ==
              IF message # <<>>
              THEN Append(bot_message, [part |-> "folder", lines |-> message, n |-> 0])
              ELSE bot_message
           with_count ==
              Append(with_folder,
                     [part |-> "count", lines |-> <<>>, n |-> new_files + files_processed])
       IN  /\ new_files' = new_files + files_processed
           /\ IF new_files + files_processed > 0
              THEN /\ bot_message' = with_count
                   /\ \E o \in SendOutcomes :
                        IF o = "raised"
                        THEN Handle(RaiseWith("Exception", <<"send_message">>))
                        ELSE /\ outbox' = [kind |-> "summary", text |-> with_count,
                                           outcome |-> o]
                             /\ pc' = "sleep"
                             /\ quiet' = quiet + 1
                             /\ UNCHANGED <<latest_error_msg, last_exc>>
              ELSE /\ bot_message' = with_folder
                   /\ pc' = "sleep"
                   /\ quiet' = quiet + 1
                   /\ UNCHANGED <<latest_error_msg, outbox, last_exc>>
    /\ UNCHANGED <<resolveVars, filmVars, staffVars, dir_files, written, files, pos,
                   title, files_processed, message, cache, lookup, attempted,
                   events, recent, cycles>>

\* time.sleep(10), and the top of `while True`: new_files = 0, bot_message = ''.
\* The clock of the caches is advanced here, where the loop waits: the window
\* of the oldest m returned lookups ends, and in the caches the entries stored
\* by them expire.  What is kept of the pass for the claims is dropped.
SleepWithin(passes) ==
    /\ pc = "sleep"
    /\ cycles < passes
    /\ pc' = "poll"
    /\ \E m \in 0..Len(recent) :
         LET Gone(b) == \E j \in 1..m : recent[j].fn = b.fn /\ recent[j].key = b.key
             n == Cardinality({j \in 1..Len(cache.born) : Gone(cache.born[j])})
         IN  /\ cache' = Expire(cache, n)
             /\ recent' = SubSeq(recent, m + 1, Len(recent))
    /\ new_files' = 0
    /\ bot_message' = <<>>
    /\ files' = <<>>
    /\ pos' = 0
    /\ outbox' = NoOutbox
    /\ lookup' = NoLookup
    /\ attempted' = {}
    /\ events' = <<>>
    /\ last_exc' = NoException
    /\ UNCHANGED <<quiet, resolveVars, filmVars, staffVars, dir_files, written, title,
                   files_processed, message, latest_error_msg, cycles>>

Sleep == SleepWithin(MaxCycles)

Next ==
    \/ Poll
    \/ SkipFile
    \/ StartFile
    \/ Search
    \/ Film
    \/ Staff
    \/ Normalize
    \/ Nfo
    \/ Posters
    \/ EndFolder
    \/ Sleep

Spec == Init /\ [][Next]_vars

\* one pass of the loop over the folder, from the start of the program to the
\* sleep that ends it
NextPass ==
    \/ Poll
    \/ SkipFile
    \/ StartFile
    \/ Search
    \/ Film
    \/ Staff
    \/ Normalize
    \/ Nfo
    \/ Posters
    \/ EndFolder

SpecPass == Init /\ [][NextPass]_vars

\* the poll loop over a folder that holds one file, for more passes
InitLoop == Init /\ Len(dir_files) = 1

SleepLoop == SleepWithin(MaxLoopCycles)

NextLoop ==
    \/ Poll
    \/ SkipFile
    \/ StartFile
    \/ Search
    \/ Film
    \/ Staff
    \/ Normalize
    \/ Nfo
    \/ Posters
    \/ EndFolder
    \/ SleepLoop

SpecLoop == InitLoop /\ [][NextLoop]_vars

\* ------------------------------------------------------------------------
\* The three cached lookups called on their own, with keys and answers of
\* any kind in any order
\* ------------------------------------------------------------------------
\* (title, year) of 'A.2010', 'B_X.1999' and 'A.1999'
IdKeys == {<<<<"A">>, Y2010>>, <<<<"B", " ", "X">>, Y1999>>, <<<<"A">>, Y1999>>}

FilmIds == {<<"1", "1">>, <<"1", "2">>, <<"1", "3">>}

InitCache == LoopIdle /\ ResolveIdle /\ FilmIdle /\ StaffIdle

\* the caches are three objects; a behaviour calls one of the lookups
Only(fn) ==
    /\ \A g \in Lookups \ {fn} : cache[g] = <<>>
    /\ \A j \in 1..Len(recent) : recent[j].fn = fn

CallId ==
    /\ Only("id")
    /\ \E k \in IdKeys, resp \in Responses(SearchBodies) :
         Call("id", k,
              CachedCall(cache, "id", k, get_film_id_uncached(k[1], k[2], resp)))
    /\ UNCHANGED <<resolveVars, filmVars, staffVars, dir_files, written, pc, files,
                   pos, title, files_processed, message, new_files, bot_message,
                   latest_error_msg, outbox, attempted, events, last_exc, quiet,
                   cycles>>

CallFilm ==
    /\ Only("film")
    /\ \E film_id \in FilmIds, resp \in Responses(FilmBodies) :
         Call("film", <<film_id>>,
              CachedCall(cache, "film", <<film_id>>,
                         get_raw_film_info_uncached(film_id, resp)))
    /\ UNCHANGED <<resolveVars, filmVars, staffVars, dir_files, written, pc, files,
                   pos, title, files_processed, message, new_files, bot_message,
                   latest_error_msg, outbox, attempted, events, last_exc, quiet,
                   cycles>>

CallStaff ==
    /\ Only("staff")
    /\ \E film_id \in FilmIds, resp \in Responses(StaffBodies) :
         Call("staff", <<film_id, MAX_ACTORS>>,
              CachedCall(cache, "staff", <<film_id, MAX_ACTORS>>,
                         get_raw_staff_info_uncached(film_id, MAX_ACTORS, resp)))
    /\ UNCHANGED <<resolveVars, filmVars, staffVars, dir_files, written, pc, files,
                   pos, title, files_processed, message, new_files, bot_message,
                   latest_error_msg, outbox, attempted, events, last_exc, quiet,
                   cycles>>

\* time passes: the window of the oldest m returned lookups ends
Elapse ==
    /\ \E m \in 1..Len(recent) :
         LET Gone(b) == \E j \in 1..m : recent[j].fn = b.fn /\ recent[j].key = b.key
             n == Cardinality({j \in 1..Len(cache.born) : Gone(cache.born[j])})
         IN  /\ cache' = Expire(cache, n)
             /\ recent' = SubSeq(recent, m + 1, Len(recent))
    /\ lookup' = NoLookup
    /\ UNCHANGED <<resolveVars, filmVars, staffVars, dir_files, written, pc, files,
                   pos, title, files_processed, message, new_files, bot_message,
                   latest_error_msg, outbox, attempted, events, last_exc, quiet,
                   cycles>>

NextCache == CallId \/ CallFilm \/ CallStaff \/ Elapse

SpecCache == InitCache /\ [][NextCache]_vars

\* ---- what the claims speak of ----
Matches == {i \in 1..Len(films) : films[i].year = year}

Malformed == {i \in 1..Len(films) : MalformedYear(films[i].year)}

FirstMatch == CHOOSE i \in Matches : \A j \in Matches : i <= j

\* the numeric value of a well-formed year
YearNumber(y) == IntOfDigits(y)

\* the first candidate among those with the numerically largest year
LatestFirst ==
    CHOOSE i \in 1..Len(films) :
        /\ \A j \in 1..Len(films) :
              YearNumber(films[j].year) <= YearNumber(films[i].year)
        /\ \A j \in 1..(i - 1) :
              YearNumber(films[j].year) < YearNumber(films[i].year)

\* C2 (as claimed): a candidate list holding a candidate whose year is not
\* exactly 4 digits always makes the resolution fail with the malformed-year
\* error, wherever the malformed candidate stands relative to a match.
C2_MalformedAlwaysFails ==
    (Ran(resolved) /\ Malformed # {})
        => resolved = Raise("APIAnswerWrongDataError")

\* C3 (as claimed): whenever some candidate's year equals the requested year,
\* the resolution returns year_matched = true with the identifier of the first
\* such candidate, whatever the order of the candidates.
C3_MatchAlwaysReturned ==
    (Ran(resolved) /\ Matches # {})
        => /\ resolved.kind = "ok"
           /\ resolved.is_year_found
           /\ resolved.film_id = Str(films[FirstMatch].filmId)

\* C3 (amended): whenever some candidate's year equals the requested year and
\* no candidate standing before the first such candidate has a malformed year,
\* the resolution returns year_matched = true with the identifier of the first
\* matching candidate, whatever the order of the candidates.
C3_MatchReturnedUnlessMalformedBefore ==
    (Ran(resolved) /\ Matches # {}
        /\ \A j \in Malformed : j > FirstMatch)
        => /\ resolved.kind = "ok"
           /\ resolved.is_year_found
           /\ resolved.film_id = Str(films[FirstMatch].filmId)

\* C3 witness: the scan returned the match standing second, after a candidate
\* with a later year and before a candidate with a malformed year.
C3_Witness ==
    /\ Ran(resolved)
    /\ Len(films) = 3
    /\ films[1].year = Y2010
    /\ Matches # {}
    /\ FirstMatch = 2
    /\ Malformed = {3}
    /\ resolved.kind = "ok"
    /\ resolved.is_year_found
    /\ resolved.film_id = Str(films[2].filmId)

\* C4: a list of well-formed years none of which equals the requested year
\* resolves to year_matched = false and the identifier of the candidate with
\* the numerically largest year, the first of them when several share it.
C4_LatestYearFallback ==
    (Ran(resolved) /\ Malformed = {} /\ Matches = {})
        => /\ resolved.kind = "ok"
           /\ ~resolved.is_year_found
           /\ resolved.film_id = Str(films[LatestFirst].filmId)

\* C4 witness: no match, the largest year is shared by the second and the
\* third candidate, and the scan returned.
C4_Witness ==
    /\ Ran(resolved)
    /\ Matches = {}
    /\ Malformed = {}
    /\ Len(films) >= 3
    /\ films[2].year = films[3].year
    /\ StrGreater(films[2].year, films[1].year)
    /\ LatestFirst = 2
    /\ resolved.kind = "ok"
    /\ ~resolved.is_year_found

\* ---- claims about the normalizers and the artwork fetcher ----
InSeq(x, seq) == \E i \in 1..Len(seq) : seq[i] = x

AllPersons == raw_staff_info.ACTORS \o raw_staff_info.DIRECTORS

Nameless == {i \in 1..Len(AllPersons) : PersonName(AllPersons[i]) = None_}

\* C5 (as claimed): a person with neither nameRu nor nameEn, with or without a
\* photo url, causes no error: get_clean_staff_info returns, and its roster
\* holds exactly the persons that have a name.
C5_NamelessIsNoError ==
    (Ran(clean_staff) /\ Nameless # {})
        => /\ clean_staff.kind = "ok"
           /\ Len(clean_staff.clean_staff_info.ACTORS)
                + Len(clean_staff.clean_staff_info.DIRECTORS)
                = Len(AllPersons) - Cardinality(Nameless)

SourceRuntime == raw_film_info["filmLength"]

Document == clean_film.clean_film_info

\* C6 (as claimed): a numeric source runtime n yields runtime n*60; a
\* non-numeric one yields a document with no runtime key plus 'runtime' in
\* empty_fields, and never raises; the document's runtime is absent or exactly
\* source*60.
C6_RuntimeAbsentOrTimes60 ==
    Ran(clean_film)
        => /\ clean_film.kind = "ok"
           /\ (SourceRuntime.t = "int" /\ SourceRuntime.n # 0)
                => /\ DictHas(Document, "runtime")
                   /\ DictGet(Document, "runtime") = IntV(SourceRuntime.n * 60)
           /\ ~IntOf(SourceRuntime).ok
                => /\ ~DictHas(Document, "runtime")
                   /\ InSeq("runtime", clean_film.empty_fields)
           /\ DictHas(Document, "runtime")
                => /\ IntOf(SourceRuntime).ok
                   /\ DictGet(Document, "runtime")
                        = IntV(IntOf(SourceRuntime).n * 60)

\* C6 (amended): a non-zero numeric source runtime n yields runtime n*60; a
\* truthy non-numeric one yields a document whose runtime entry is None (the
\* key is there, with a null value) plus 'runtime' in empty_fields; an absent
\* or zero one yields no runtime key plus 'runtime' in empty_fields; nothing is
\* raised; the document's runtime is absent, None or exactly int(source)*60.
C6_RuntimeNoneOrTimes60 ==
    Ran(clean_film)
        => /\ clean_film.kind = "ok"
           /\ (Truthy(SourceRuntime) /\ IntOf(SourceRuntime).ok)
                => /\ DictHas(Document, "runtime")
                   /\ DictGet(Document, "runtime")
                        = IntV(IntOf(SourceRuntime).n * 60)
                   /\ ~InSeq("runtime", clean_film.empty_fields)
           /\ (Truthy(SourceRuntime) /\ ~IntOf(SourceRuntime).ok)
                => /\ DictHas(Document, "runtime")
                   /\ DictGet(Document, "runtime") = None_
                   /\ InSeq("runtime", clean_film.empty_fields)
           /\ ~Truthy(SourceRuntime)
                => /\ ~DictHas(Document, "runtime")
                   /\ InSeq("runtime", clean_film.empty_fields)

\* C6 witness: the source runtime 'x' was normalized to a runtime entry None,
\* listed in empty_fields.
C6_Witness ==
    /\ Ran(clean_film)
    /\ SourceRuntime = StrV(<<"x">>)
    /\ DictHas(Document, "runtime")
    /\ DictGet(Document, "runtime") = None_
    /\ InSeq("runtime", clean_film.empty_fields)

Wrote(file, url) ==
    \E i \in 1..Len(art_files) :
        art_files[i] = [file |-> file, url |-> url]

DocumentHoldsNoImageUrl ==
    /\ DictKeys(Document) \cap {"poster", "fanart", "cover"} = {}
    /\ \A i \in 1..Len(Document) :
          Document[i].value \notin {Url("p"), Url("c")}

\* what the claim C10 says with the image key `entry` standing for the cover
ImageRouting(entry) ==
    /\ Ran(clean_film) =>
          /\ clean_film.kind = "ok"
          /\ Truthy(raw_film_info["coverUrl"])
                => /\ DictHas(clean_film.posters_urls, entry)
                   /\ DictGet(clean_film.posters_urls, entry)
                        = raw_film_info["coverUrl"]
          /\ Truthy(raw_film_info["posterUrl"])
                => DictGet(clean_film.posters_urls, "poster")
                        = raw_film_info["posterUrl"]
          /\ DocumentHoldsNoImageUrl
    /\ (Ran(art_result) /\ art_result.is_ok) =>
          /\ Truthy(raw_film_info["coverUrl"])
                => Wrote(PosterFile(RawFileName, entry), raw_film_info["coverUrl"])
          /\ Truthy(raw_film_info["posterUrl"])
                => Wrote(PosterFile(RawFileName, "poster"),
                         raw_film_info["posterUrl"])

\* C10 (as claimed): a cover url is placed under the 'cover' entry of the
\* image-url map and written to <basename>-cover.jpg, a poster url under
\* 'poster' and to <basename>-poster.jpg; neither url is in the document.
C10_CoverUnderCover == ImageRouting("cover")

\* C10 (amended): a cover url is placed under the 'fanart' entry of the
\* image-url map (the 'cover' entry stays None) and written to
\* <basename>-fanart.jpg, a poster url under 'poster' and to
\* <basename>-poster.jpg, when create_posters returns success; neither url is
\* in the document, and no <basename>-cover.jpg is ever written.
C10_CoverUnderFanart ==
    /\ ImageRouting("fanart")
    /\ Ran(clean_film) => DictGet(clean_film.posters_urls, "cover") = None_
    /\ \A i \in 1..Len(art_files) :
          art_files[i].file # PosterFile(RawFileName, "cover")

\* C10 witness: a film with a cover and a poster url was normalized and
\* create_posters wrote both files and returned success.
C10_Witness ==
    /\ Ran(clean_film)
    /\ Ran(art_result)
    /\ art_result.is_ok
    /\ Truthy(raw_film_info["coverUrl"])
    /\ Wrote(PosterFile(RawFileName, "fanart"), Url("c"))
    /\ Wrote(PosterFile(RawFileName, "poster"), Url("p"))

\* ---- the poll loop: what the claims speak of ----
\* a video of the pass's listing without its sidecar in that listing
Eligible(j) ==
    /\ files[j].ext \in VIDEO_EXT
    /\ ~is_nfo_file_exists(files[j].stem, files)

\* NoYear, NoCandidates, MalformedYear, NotFound
FileFailures ==
    {"NoYearError", "NoFilmsError", "APIAnswerWrongDataError", "NotFoundError"}

\* the pass is over: process_folder returned or an exception left it
PassOver == pc = "sleep"

\* C1: when the extraction or the resolution of one file fails, every eligible
\* file after it in the listing is still processed in the same pass
C1_FailureAbortsOnlyThatFile ==
    PassOver =>
        \A e \in 1..Len(events) :
            (events[e].what = "failure" /\ events[e].exc \in FileFailures)
            => \A j \in (events[e].file + 1)..Len(files) :
                   Eligible(j) => j \in attempted

\* the line of the summary an event of a file shows as
LineOf(what) ==
    CASE what = "nfo_error" -> "nfo_error"
      [] what = "posters_error" -> "posters_error"
      [] what = "degraded" -> "msg_id"
      [] OTHER -> "failure"

\* the summary main holds for the folder has a line of the event's file: any
\* line of the file for a failure that ended it, the event's line otherwise
Mentioned(e) ==
    \E p \in 1..Len(bot_message) :
        /\ bot_message[p].part = "folder"
        /\ \E l \in 1..Len(bot_message[p].lines) :
              /\ bot_message[p].lines[l].file = e.file
              /\ e.what = "failure" \/ bot_message[p].lines[l].text = LineOf(e.what)

\* C7: after a folder pass every failure and every degraded match of the pass
\* is in the summary returned for the folder
C7_EveryFailureInSummary ==
    PassOver => \A e \in 1..Len(events) : Mentioned(events[e])

C9_HitReturnsFirstResult ==
    /\ (lookup.fn # "none" /\ lookup.within /\ lookup.kept)
       => (~lookup.requested /\ lookup.result = lookup.first)
    /\ \A fn \in Lookups : Len(cache[fn]) <= MaxCacheEntries

\* a cached None is returned without a request while the cache is full and an
\* earlier entry, still inside its window, has been evicted
C9_Witness ==
    /\ lookup.fn # "none"
    /\ lookup.within
    /\ lookup.kept
    /\ ~lookup.requested
    /\ lookup.result = ReturnsNone
    /\ Len(cache[lookup.fn]) = MaxCacheEntries
    /\ \E j \in 1..Len(recent) : ~HasKey(cache[recent[j].fn], recent[j].key)

StartsWith(s, prefix) ==
    Len(s) >= Len(prefix) /\ SubSeq(s, 1, Len(prefix)) = prefix

\* the folder holds a file the program wrote under the basename of the file
\* at position j of the listing: its sidecar, its poster or its fanart
WrittenFor(j) ==
    \E w \in 1..Len(written) :
        /\ written[w].file.dir = "root"
        /\ StartsWith(written[w].file.stem, files[j].stem)

\* a lookup that answered NotFound (None), or a search without candidates
NotFoundAnswer(seen) ==
    /\ seen.fn # "none"
    /\ \/ seen.result.kind = "none"
       \/ seen.result.kind = "raise" /\ seen.result.exc = "NoFilmsError"

\* C11: a file goes through extract key, search, film detail, staff detail,
\* normalize, write sidecar, fetch artwork in this order, files being written
\* in the last two steps only; when a lookup answers NotFound or the search
\* has no candidates the file fails there and nothing is written for it
C11_FixedOrderAndNotFoundFails ==
    [][/\ pc = "file" => pc' \in {"file", "search", "sleep"}
       /\ pc = "search" => pc' \in {"film", "sleep"}
       /\ pc = "film" => pc' \in {"staff", "sleep"}
       /\ pc = "staff" => pc' \in {"normalize", "sleep"}
       /\ pc = "normalize" => pc' \in {"nfo", "sleep"}
       /\ pc = "nfo" => pc' = "posters"
       /\ pc = "posters" => pc' = "file"
       /\ (pc' \in {"film", "staff", "normalize", "nfo", "posters"}) => pos' = pos
       /\ written' # written => pc \in {"nfo", "posters"}
       /\ (pc \in {"search", "film", "staff"} /\ NotFoundAnswer(lookup')) =>
            /\ pc' = "sleep"
            /\ written' = written
            /\ events' = Append(events, Event("failure", last_exc'.exc))
            /\ last_exc'.exc \in {"NotFoundError", "NoFilmsError"}
      ]_vars

\* the film-detail lookup of a file answered NotFound after its search
\* succeeded: the file failed, and neither sidecar nor artwork of it exists
C11_Witness ==
    /\ pc = "sleep"
    /\ lookup.fn = "film"
    /\ lookup.result = ReturnsNone
    /\ Len(events) > 0
    /\ events[Len(events)].exc = "NotFoundError"
    /\ ~WrittenFor(events[Len(events)].file)

\* the listing of the pass holds <basename>.nfo for the video at position j
HasSidecar(j) ==
    \E k \in 1..Len(files) : files[k].ext = ".nfo" /\ files[k].stem = files[j].stem

Videos == {j \in 1..Len(files) : files[j].ext \in VIDEO_EXT}

\* C12: a video whose sidecar is in the listing is passed over with no lookup,
\* nothing written, nothing added to the summary and no count; a pass whose
\* listing holds the sidecar of every video ends with zero files processed
\* and sends nothing
C12_SidecarMeansSkipped ==
    [][/\ (pc = "file" /\ pos \in Videos /\ HasSidecar(pos)) =>
            /\ pc' = "file"
            /\ pos' = pos + 1
            /\ UNCHANGED <<cache, recent, lookup, written, message, files_processed,
                           attempted, events, bot_message, outbox>>
       /\ (pc = "file" /\ pc' = "sleep" /\ \A j \in Videos : HasSidecar(j)) =>
            /\ attempted' = {}
            /\ files_processed' = 0
            /\ new_files' = 0
            /\ bot_message' = <<>>
            /\ outbox' = NoOutbox
      ]_vars

\* the folder started with two videos and no sidecar, the first pass wrote
\* both sidecars, and the second pass is over with no file attempted
C12_Witness ==
    /\ cycles = 2
    /\ pc = "sleep"
    /\ last_exc = NoException
    /\ Len(dir_files) = 2
    /\ \A d \in 1..2 : dir_files[d].ext \in VIDEO_EXT
    /\ \A d \in 1..2 :
          \E w \in 1..Len(written) :
              written[w] = [file |-> NfoFile(dir_files[d].stem), url |-> StrV(<<"xml">>)]
    /\ Cardinality(Videos) = 2
    /\ attempted = {}
    /\ new_files = 0

\* a step in which an exception reaches main's handler
HandlerStep == pc # "sleep" /\ pc' = "sleep" /\ last_exc'.kind = "raise"

\* the text of the error the handler got in this step
HandledText == [exc |-> last_exc'.exc, detail |-> last_exc'.detail]

\* the handler called send_message with the error text in this step
SendAttempted == outbox'.kind = "error" /\ outbox'.text = HandledText

\* C13 as stated: an error text is sent only when it differs from the one
\* recorded, the recorded text becomes the sent one after every send attempt,
\* and no other step changes it
C13_RecordedAfterEverySend ==
    [][/\ HandlerStep =>
            /\ SendAttempted <=> HandledText # latest_error_msg
            /\ SendAttempted => latest_error_msg' = HandledText
            /\ ~SendAttempted => UNCHANGED <<latest_error_msg, outbox>>
       /\ ~HandlerStep => latest_error_msg' = latest_error_msg
      ]_vars

\* C13 amended: an error text is sent only when it differs from the one
\* recorded; the recorded text becomes the sent one when send_message
\* returned, delivered or not, and stays what it was when send_message raised;
\* no other step, a pass without exception included, changes it
C13_RecordedWhenSendReturns ==
    [][/\ HandlerStep =>
            /\ SendAttempted <=> HandledText # latest_error_msg
            /\ SendAttempted =>
                 latest_error_msg' = IF outbox'.outcome = "raised"
                                     THEN latest_error_msg
                                     ELSE HandledText
            /\ ~SendAttempted => UNCHANGED <<latest_error_msg, outbox>>
       /\ ~HandlerStep => latest_error_msg' = latest_error_msg
      ]_vars

\* the third pass ended in the error recorded before a pass without
\* exception, and nothing was sent
C13_Witness ==
    /\ cycles = 3
    /\ pc = "sleep"
    /\ last_exc.kind = "raise"
    /\ latest_error_msg = [exc |-> last_exc.exc, detail |-> last_exc.detail]
    /\ outbox = NoOutbox
    /\ quiet >= 1

\* the film detail of the current file has no title or no year to normalize
LacksTitleOrYear ==
    ~Truthy(raw_film_info["nameRu"]) \/ ~Truthy(raw_film_info["year"])

\* C14: when the film detail gives no 'title' or no 'year', process_folder
\* raises at the header line, before create_nfo and create_posters: nothing
\* is written for the file, main gets no summary of the folder, and the pass
\* ends without another file being started
C14_NoTitleOrYearEndsThePass ==
    [][/\ (pc = "normalize" /\ LacksTitleOrYear) =>
            /\ pc' = "sleep"
            /\ last_exc'.kind = "raise"
            /\ last_exc'.exc = "KeyError"
            /\ written' = written
            /\ message' = <<>>
            /\ bot_message' = <<>>
            /\ new_files' = 0
            /\ attempted' = attempted
            /\ outbox'.kind # "summary"
       /\ (pc = "sleep" /\ last_exc.kind = "raise" /\ last_exc.exc = "KeyError") =>
            /\ attempted' = attempted \/ pc' = "poll"
            /\ written' = written
       /\ pc' \in {"nfo", "posters"} => ~LacksTitleOrYear'
      ]_vars

\* the first file was processed and its sidecar written, the film detail of
\* the second has no title: the pass is over with a KeyError, nothing of
\* the second file is written, and main holds no summary
C14_Witness ==
    /\ pc = "sleep"
    /\ last_exc.kind = "raise"
    /\ last_exc.exc = "KeyError"
    /\ last_exc.detail = <<"title">>
    /\ attempted = {1, 2}
    /\ bot_message = <<>>
    /\ \E w \in 1..Len(written) : written[w].file = NfoFile(files[1].stem)
    /\ ~WrittenFor(2)

====
